---------------------------- MODULE Spec2Model ----------------------------
(***************************************************************************)
(* Model of the dashboard app of the AI usage learning platform:           *)
(* ethics policies (AIEthicsPolicy), usage events (AIUsageLog) with their  *)
(* compliance verdict, the insights generated on every new usage event     *)
(* (signals.generate_usage_insights), the compliance score of a            *)
(* ComplianceStatus, users with their profiles (UserProfile), feedback     *)
(* (UserFeedback) and the dashboard routes of views.py with the answers    *)
(* they give.                                                              *)
(*                                                                         *)
(* Time is an integer clock `now` counted in ticks; TicksPerDay ticks make *)
(* one calendar day, so that a datetime has a date part and a time-of-day  *)
(* part.  Tables whose primary key the code never reads are bags of rows.  *)
(***************************************************************************)
EXTENDS Integers, Sequences, FiniteSets, Bags, TLC

VARIABLES
    now,        \* timezone.now(), in ticks
    policies,   \* table ai_ethics_policy, in creation order (index = id)
    logs,       \* table ai_usage_log: a bag of rows
    insights,   \* table user_insight: a bag of rows
    cs,         \* one ComplianceStatus object
    cs_pc,      \* "stored" before calculate_score has run on cs, "scored" after
    users,      \* table auth_user: the usernames that exist
    profiles,   \* table user_profile: a bag of rows
    feedback,   \* table user_feedback: a bag of rows
    response,   \* the answer to the last request a dashboard route served
    requests    \* log-usage requests being served, between check and INSERT

\* the tables and the request state that the policy, usage-log and score
\* operations leave alone
site == <<users, profiles, feedback, response, requests>>

vars == <<now, policies, logs, insights, cs, cs_pc, site>>

----------------------------------------------------------------------------
(* Bounds of the model *)

\* ticks per calendar day (granularity of the time of day)
TicksPerDay == 2
\* rows of ai_usage_log in Spec
MaxLogs == 2
\* rows of ai_usage_log in SpecFixed
MaxInserts == 6
\* rows of ai_ethics_policy in SpecPolicy
MaxPolicies == 1
\* largest date an administrator enters in SpecPolicy
MaxDate == 2

\* largest total_usage_count and compliant_usage_count stored in SpecScore
MaxCount == 50
\* largest violation_count stored in SpecScore
MaxViolations == 1

\* rows of ai_usage_log in SpecInsights
MaxInsightLogs == 51
\* rows of ai_usage_log of the second user in SpecInsights and SpecSite
MaxOtherLogs == 1

\* rows of ai_usage_log in SpecWeekly
MaxWeekLogs == 3
\* largest max_daily_usage and max_weekly_usage of the policy of SpecWeekly
MaxWeekLimit == 2

\* rows of ai_usage_log in SpecMonotone
MaxMonotoneLogs == 4

\* rows of user_feedback in SpecFeedback
MaxFeedback == 2

\* log-usage requests served at the same time in SpecRace
MaxRequests == 2
\* rows of ai_usage_log in SpecRace
MaxRaceLogs == 3
\* largest max_daily_usage of the policy of SpecRace
MaxRaceLimit == 2

\* rows of ai_usage_log in SpecHandlers
MaxHandlerLogs == 52

\* rows of ai_ethics_policy in SpecSelect
MaxSelectPolicies == 2
\* rows of ai_usage_log in SpecSelect
MaxSelectLogs == 1

\* rows of ai_usage_log in SpecSite
MaxSiteLogs == 10
\* rows of user_feedback in SpecSite
MaxSiteFeedback == 1

\* rows of user_insight in SpecReading
MaxReadingInsights == 3

\* rows of ai_usage_log in SpecForms
MaxFormLogs == 2

\* last clock value of Spec and SpecFixed: the first tick of the second day
MaxNow == TicksPerDay

Users == {"u1", "u2"}

----------------------------------------------------------------------------
(* Dates and datetimes *)

\* timezone.now().date()
date(t) == t \div TicksPerDay

\* timezone.now().replace(hour=0, minute=0, second=0, microsecond=0)
today_start(t) == t - (t % TicksPerDay)

DaysPerWeek == 7

\* timezone.now() - timedelta(days=7)
week_start(t) == t - DaysPerWeek * TicksPerDay

----------------------------------------------------------------------------
(* AIEthicsPolicy *)

\* effective_until is nullable: the null date
NoDate == -1

\* AIUsageLog.policy is nullable: the null reference
NoPolicy == 0

POLICY_STATUS_CHOICES == {"draft", "active", "archived"}

is_active_until_excluded(p, today) ==
    IF p.status # "active" THEN FALSE
    ELSE IF p.effective_from > today THEN FALSE
    ELSE IF p.effective_until # NoDate /\ p.effective_until <= today THEN FALSE
    ELSE TRUE

\* AIEthicsPolicy.is_active
is_active(p, today) ==
    IF p.status # "active" THEN FALSE
    ELSE IF p.effective_from > today THEN FALSE
    ELSE IF p.effective_until # NoDate /\ p.effective_until < today THEN FALSE
    ELSE TRUE

\* The queryset of log_usage_view and dashboard_view:
\* filter(status='active', effective_from__lte=today)
\*   .filter(Q(effective_until__gte=today) | Q(effective_until__isnull=True))
ActivePolicyMatches(ps, today) ==
    {i \in DOMAIN ps :
        /\ ps[i].status = "active"
        /\ ps[i].effective_from <= today
        /\ (ps[i].effective_until >= today \/ ps[i].effective_until = NoDate)}

ActivePolicyQuery_oldest(ps, today) ==
    LET m == ActivePolicyMatches(ps, today)
    IN  IF m = {} THEN NoPolicy
        ELSE CHOOSE i \in m : \A j \in m : i <= j

ActivePolicyQuery_latest(ps, today) ==
    IF ps = << >> THEN NoPolicy ELSE Len(ps)

\* .first() under Meta.ordering = ['-created_at']: the most recently created
\* match, or None
ActivePolicyQuery(ps, today) ==
    LET m == ActivePolicyMatches(ps, today)
    IN  IF m = {} THEN NoPolicy
        ELSE CHOOSE i \in m : \A j \in m : j <= i

Policy(st, from, until, daily, weekly) ==
    [status |-> st, effective_from |-> from, effective_until |-> until,
     max_daily_usage |-> daily, max_weekly_usage |-> weekly]

\* what an administrator enters in SpecPolicy: every status, every date
AllPolicies ==
    {Policy(st, from, until, 1, 1) :
        st \in POLICY_STATUS_CHOICES,
        from \in 0..MaxDate,
        until \in {NoDate} \cup (0..MaxDate)}

\* max_daily_usage and max_weekly_usage as the model fields default them
DefaultDaily == 100
DefaultWeekly == 500

\* what an administrator enters in Spec: an open-ended policy from day 0 on,
\* active or still a draft, with a daily limit
LimitPolicies ==
    {Policy(st, 0, NoDate, daily, DefaultWeekly) :
        st \in {"active", "draft"},
        daily \in 1..MaxLogs}

\* the policy of SpecFixed: active and open-ended from day 0 on, with a daily
\* limit that one more event than the limit still fits the table
FixedPolicies ==
    {Policy("active", 0, NoDate, daily, DefaultWeekly) :
        daily \in 1..(MaxInserts - 1)}

\* admin: add an AIEthicsPolicy
CreatePolicy(p) ==
    /\ Len(policies) < MaxPolicies
    /\ policies' = Append(policies, p)
    /\ UNCHANGED <<now, logs, insights, cs, cs_pc>> /\ UNCHANGED site

\* admin: change an AIEthicsPolicy
EditPolicy(i, p) ==
    /\ i \in DOMAIN policies
    /\ policies[i] # p
    /\ policies' = [policies EXCEPT ![i] = p]
    /\ UNCHANGED <<now, logs, insights, cs, cs_pc>> /\ UNCHANGED site

\* the clock advances by d ticks
Tick(d, maxNow) ==
    /\ now + d <= maxNow
    /\ now' = now + d
    /\ UNCHANGED <<policies, logs, insights, cs, cs_pc>> /\ UNCHANGED site

----------------------------------------------------------------------------
(* AIUsageLog *)

\* a row of ai_usage_log; compliance_notes is a text, kept as the tuple of
\* its parts (the blank text is the empty tuple)
NewLog(u, t, pol) ==
    [user |-> u, timestamp |-> t, policy |-> pol,
     is_compliant |-> TRUE, compliance_notes |-> << >>]

\* AIUsageLog.objects.filter(user=u, timestamp__gte=since)
LogsSince(lg, u, since) ==
    [r \in {x \in DOMAIN lg : x.user = u /\ x.timestamp >= since} |-> lg[r]]

\* AIUsageLog.objects.filter(user=u)
LogsOf(lg, u) ==
    [r \in {x \in DOMAIN lg : x.user = u} |-> lg[r]]

\* QuerySet.count()
count(b) == BagCardinality(b)

check_compliance_limit_exceeded_only(self, ps, lg, t) ==
    IF self.policy = NoPolicy \/ ~is_active(ps[self.policy], date(t))
    THEN [self EXCEPT !.is_compliant = TRUE]
    ELSE
        LET policy       == ps[self.policy]
            daily_count  == count(LogsSince(lg, self.user, today_start(t)))
            weekly_count == count(LogsSince(lg, self.user, week_start(t)))
        IN  IF daily_count > policy.max_daily_usage
            THEN [self EXCEPT
                    !.is_compliant = FALSE,
                    !.compliance_notes =
                        <<"Exceeded daily usage limit of", policy.max_daily_usage>>]
            ELSE IF weekly_count > policy.max_weekly_usage
            THEN [self EXCEPT
                    !.is_compliant = FALSE,
                    !.compliance_notes =
                        <<"Exceeded weekly usage limit of", policy.max_weekly_usage>>]
            ELSE [self EXCEPT
                    !.is_compliant = TRUE,
                    !.compliance_notes = <<"Usage within policy limits">>]

check_compliance_weekly_first(self, ps, lg, t) ==
    IF self.policy = NoPolicy \/ ~is_active(ps[self.policy], date(t))
    THEN [self EXCEPT !.is_compliant = TRUE]
    ELSE
        LET policy       == ps[self.policy]
            daily_count  == count(LogsSince(lg, self.user, today_start(t)))
            weekly_count == count(LogsSince(lg, self.user, week_start(t)))
        IN  IF weekly_count >= policy.max_weekly_usage
            THEN [self EXCEPT
                    !.is_compliant = FALSE,
                    !.compliance_notes =
                        <<"Exceeded weekly usage limit of", policy.max_weekly_usage>>]
            ELSE IF daily_count >= policy.max_daily_usage
            THEN [self EXCEPT
                    !.is_compliant = FALSE,
                    !.compliance_notes =
                        <<"Exceeded daily usage limit of", policy.max_daily_usage>>]
            ELSE [self EXCEPT
                    !.is_compliant = TRUE,
                    !.compliance_notes = <<"Usage within policy limits">>]

check_compliance_at_limit_only(self, ps, lg, t) ==
    IF self.policy = NoPolicy \/ ~is_active(ps[self.policy], date(t))
    THEN [self EXCEPT !.is_compliant = TRUE]
    ELSE
        LET policy       == ps[self.policy]
            daily_count  == count(LogsSince(lg, self.user, today_start(t)))
            weekly_count == count(LogsSince(lg, self.user, week_start(t)))
        IN  IF daily_count = policy.max_daily_usage
            THEN [self EXCEPT
                    !.is_compliant = FALSE,
                    !.compliance_notes =
                        <<"Exceeded daily usage limit of", policy.max_daily_usage>>]
            ELSE IF weekly_count = policy.max_weekly_usage
            THEN [self EXCEPT
                    !.is_compliant = FALSE,
                    !.compliance_notes =
                        <<"Exceeded weekly usage limit of", policy.max_weekly_usage>>]
            ELSE [self EXCEPT
                    !.is_compliant = TRUE,
                    !.compliance_notes = <<"Usage within policy limits">>]

\* AIUsageLog.check_compliance, on the rows lg stored at time t
check_compliance(self, ps, lg, t) ==
    IF self.policy = NoPolicy \/ ~is_active(ps[self.policy], date(t))
    THEN [self EXCEPT !.is_compliant = TRUE]
    ELSE
        LET policy       == ps[self.policy]
            daily_count  == count(LogsSince(lg, self.user, today_start(t)))
            weekly_count == count(LogsSince(lg, self.user, week_start(t)))
        IN  IF daily_count >= policy.max_daily_usage
            THEN [self EXCEPT
                    !.is_compliant = FALSE,
                    !.compliance_notes =
                        <<"Exceeded daily usage limit of", policy.max_daily_usage>>]
            ELSE IF weekly_count >= policy.max_weekly_usage
            THEN [self EXCEPT
                    !.is_compliant = FALSE,
                    !.compliance_notes =
                        <<"Exceeded weekly usage limit of", policy.max_weekly_usage>>]
            ELSE [self EXCEPT
                    !.is_compliant = TRUE,
                    !.compliance_notes = <<"Usage within policy limits">>]

\* AIUsageLog.save: the row as it is written
save(self, ps, lg, t) ==
    IF self.policy # NoPolicy THEN check_compliance(self, ps, lg, t) ELSE self

----------------------------------------------------------------------------
(* UserInsight and the post_save handler of AIUsageLog *)

\* the daily volume from which a warning insight is generated
HighUsageToday == 50

milestones == {10, 50, 100, 250, 500, 1000}

\* a row of user_insight; title and message are texts, kept as the tuples of
\* their parts
Insight(u, type, title, message, priority, t) ==
    [user |-> u, insight_type |-> type, title |-> title, message |-> message,
     priority |-> priority, is_read |-> FALSE, is_dismissed |-> FALSE,
     generated_at |-> t]

WarningInsight(u, today_usage, t) ==
    Insight(u, "warning", <<"High AI Usage Today">>,
            <<"You have logged", today_usage, "AI interactions today.">>,
            "high", t)

AchievementInsight(u, total_usage, t) ==
    Insight(u, "achievement", <<"Milestone:", total_usage, "AI Interactions!">>,
            <<"Congratulations! You have logged", total_usage, "AI interactions.">>,
            "medium", t)

WarningExists_never(ins, u, since) == FALSE

\* UserInsight.objects.filter(user=u, insight_type='warning',
\*                            generated_at__gte=since).exists()
WarningExists(ins, u, since) ==
    \E i \in BagToSet(ins) :
        /\ i.user = u
        /\ i.insight_type = "warning"
        /\ i.generated_at >= since

\* UserInsight.objects.create(...)
create(ins, row) == ins (+) SetToBag({row})

generate_usage_insights_count_before(instance, created, lg, ins, t) ==
    IF ~created THEN ins
    ELSE
        LET user        == instance.user
            today_usage == count(LogsSince(lg, user, today_start(t)))
            ins1 == IF today_usage >= HighUsageToday
                       /\ ~WarningExists(ins, user, today_start(t))
                    THEN create(ins, WarningInsight(user, today_usage, t))
                    ELSE ins
            total_usage == count(LogsOf(lg, user)) - 1
        IN  IF total_usage \in milestones
            THEN create(ins1, AchievementInsight(user, total_usage, t))
            ELSE ins1

generate_usage_insights_warning_once(instance, created, lg, ins, t) ==
    IF ~created THEN ins
    ELSE
        LET user        == instance.user
            today_usage == count(LogsSince(lg, user, today_start(t)))
            ins1 == IF today_usage >= HighUsageToday
                       /\ ~WarningExists(ins, user, 0)
                    THEN create(ins, WarningInsight(user, today_usage, t))
                    ELSE ins
            total_usage == count(LogsOf(lg, user))
        IN  IF total_usage \in milestones
            THEN create(ins1, AchievementInsight(user, total_usage, t))
            ELSE ins1

generate_usage_insights_one_per_type(instance, created, lg, ins, t) ==
    IF ~created THEN ins
    ELSE
        LET user        == instance.user
            today_usage == count(LogsSince(lg, user, today_start(t)))
            ins1 == IF today_usage >= HighUsageToday
                       /\ ~WarningExists(ins, user, today_start(t))
                    THEN create(ins, WarningInsight(user, today_usage, t))
                    ELSE ins
            total_usage == count(LogsOf(lg, user))
            others == [i \in {x \in DOMAIN ins1 :
                                 x.user # user \/ x.insight_type # "achievement"}
                         |-> ins1[i]]
        IN  IF total_usage \in milestones
            THEN create(others, AchievementInsight(user, total_usage, t))
            ELSE ins1

\* signals.generate_usage_insights: the insights table after the handler ran
\* for `instance`, lg being the usage logs with the instance already stored
generate_usage_insights(instance, created, lg, ins, t) ==
    IF ~created THEN ins
    ELSE
        LET user        == instance.user
            today_usage == count(LogsSince(lg, user, today_start(t)))
            ins1 == IF today_usage >= HighUsageToday
                       /\ ~WarningExists(ins, user, today_start(t))
                    THEN create(ins, WarningInsight(user, today_usage, t))
                    ELSE ins
            total_usage == count(LogsOf(lg, user))
        IN  IF total_usage \in milestones
            THEN create(ins1, AchievementInsight(user, total_usage, t))
            ELSE ins1

----------------------------------------------------------------------------
(* Operations on usage logs *)

\* log_usage_view, POST of a valid form by user u: the active policy is
\* attached, the row is saved (AIUsageLog.save) and the post_save handler runs
LogUsage(u, maxLogs) ==
    LET active_policy == ActivePolicyQuery(policies, date(now))
        usage_log     == save(NewLog(u, now, active_policy), policies, logs, now)
        stored        == logs (+) SetToBag({usage_log})
    IN  /\ count(logs) < maxLogs
        /\ logs' = stored
        /\ insights' = generate_usage_insights(usage_log, TRUE, stored, insights, now)
        /\ UNCHANGED <<now, policies, cs, cs_pc>> /\ UNCHANGED site

\* admin: the change form of an AIUsageLog is saved again; Model.save runs on
\* the stored row (timestamp is auto_now_add and stays), post_save is sent
\* with created=False
ResaveLog(r) ==
    LET usage_log == save(r, policies, logs, now)
        stored    == (logs (-) SetToBag({r})) (+) SetToBag({usage_log})
    IN  /\ BagIn(r, logs)
        /\ logs' = stored
        /\ insights' = generate_usage_insights(usage_log, FALSE, stored, insights, now)
        /\ UNCHANGED <<now, policies, cs, cs_pc>> /\ UNCHANGED site

\* admin: an AIUsageLog is deleted
DeleteLog(r) ==
    /\ BagIn(r, logs)
    /\ logs' = logs (-) SetToBag({r})
    /\ UNCHANGED <<now, policies, insights, cs, cs_pc>> /\ UNCHANGED site

----------------------------------------------------------------------------
(* Python's float: IEEE 754 binary64, round to nearest, ties to even *)

\* A positive float is [hi, mid, lo, e]: its 53-bit significand is
\* m = hi * 2^36 + mid * 2^18 + lo with 2^16 <= hi < 2^17 and mid, lo < 2^18,
\* and its value is m * 2^(e - 52), so 2^e <= value < 2^(e + 1).  The three
\* limbs keep every intermediate result below 2^31.
RECURSIVE Pow2(_)
Pow2(n) == IF n = 0 THEN 1 ELSE 2 * Pow2(n - 1)

Limb == Pow2(18)
TopLimb == Pow2(17)

\* the float nearest to an exact value whose first 53 bits are the limbs
\* hi, mid, lo: round_up says that what was cut off is more than half a unit
\* of lo, or exactly half and lo is odd
Rounded(hi, mid, lo, e, round_up) ==
    IF ~round_up THEN [hi |-> hi, mid |-> mid, lo |-> lo, e |-> e]
    ELSE IF lo + 1 < Limb THEN [hi |-> hi, mid |-> mid, lo |-> lo + 1, e |-> e]
    ELSE IF mid + 1 < Limb THEN [hi |-> hi, mid |-> mid + 1, lo |-> 0, e |-> e]
    ELSE IF hi + 1 < TopLimb THEN [hi |-> hi + 1, mid |-> 0, lo |-> 0, e |-> e]
    ELSE [hi |-> TopLimb \div 2, mid |-> 0, lo |-> 0, e |-> e + 1]

\* the largest k with b * 2^k <= a, for a >= b > 0
RECURSIVE FloorLog2(_, _)
FloorLog2(a, b) == IF 2 * b <= a THEN 1 + FloorLog2(a, 2 * b) ELSE 0

\* the smallest k with a * 2^k >= b, for 0 < a
RECURSIVE CeilShift(_, _)
CeilShift(a, b) == IF a >= b THEN 0 ELSE 1 + CeilShift(2 * a, b)

\* a / b for two positive ints below 2^12: the correctly rounded quotient,
\* by long division in base 2^18 of num / den, which lies in [1, 2)
float_truediv(a, b) ==
    LET up   == IF a >= b THEN FloorLog2(a, b) ELSE 0
        down == IF a >= b THEN 0 ELSE CeilShift(a, b)
        num  == a * Pow2(down)
        den  == b * Pow2(up)
        hi   == (num * (TopLimb \div 2)) \div den
        r1   == (num * (TopLimb \div 2)) % den
        mid  == (r1 * Limb) \div den
        r2   == (r1 * Limb) % den
        lo   == (r2 * Limb) \div den
        r3   == (r2 * Limb) % den
    IN  Rounded(hi, mid, lo, up - down,
                2 * r3 > den \/ (2 * r3 = den /\ lo % 2 = 1))

\* x * 100.0 for a positive float x: the correctly rounded product.  The
\* exact product has 6 or 7 bits more than 53, which are cut off.
float_mul_100(x) ==
    LET p_lo  == (x.lo * 100) % Limb
        c_lo  == (x.lo * 100) \div Limb
        p_mid == (x.mid * 100 + c_lo) % Limb
        c_mid == (x.mid * 100 + c_lo) \div Limb
        p_hi  == x.hi * 100 + c_mid
        extra == IF p_hi < Pow2(23) THEN 6 ELSE 7
        unit  == Pow2(extra)
        keep  == Limb \div unit
        hi    == p_hi \div unit
        mid   == (p_hi % unit) * keep + p_mid \div unit
        lo    == (p_mid % unit) * keep + p_lo \div unit
        cut   == p_lo % unit
    IN  Rounded(hi, mid, lo, x.e + extra,
                2 * cut > unit \/ (2 * cut = unit /\ lo % 2 = 1))

\* int(x) for a positive float x below 2^17: truncation
float_to_int(x) ==
    IF x.e < 0 THEN 0 ELSE x.hi \div Pow2(16 - x.e)

Abs(n) == IF n < 0 THEN -n ELSE n

\* int((compliant / total) * 100), total # 0: the sign is that of the
\* quotient, and int() truncates toward zero
int_ratio_times_100(compliant, total) ==
    IF compliant = 0 THEN 0
    ELSE LET magnitude ==
                 float_to_int(float_mul_100(float_truediv(Abs(compliant), Abs(total))))
         IN  IF (compliant < 0) # (total < 0) THEN -magnitude ELSE magnitude

----------------------------------------------------------------------------
(* ComplianceStatus *)

NewStatus ==
    [total_usage_count |-> 0, compliant_usage_count |-> 0, violation_count |-> 0,
     compliance_score |-> 100, compliance_level |-> "excellent"]

\* n / d rounded to the nearest integer, a tie to the even one, as round()
RoundHalfEven(n, d) ==
    LET q == n \div d
        r == n % d
    IN  IF 2 * r > d \/ (2 * r = d /\ q % 2 = 1) THEN q + 1 ELSE q

score_of_rounded(self) ==
    IF self.total_usage_count = 0 THEN 100
    ELSE RoundHalfEven(100 * self.compliant_usage_count, self.total_usage_count)

score_of_zero_without_usage(self) ==
    IF self.total_usage_count = 0 THEN 0
    ELSE int_ratio_times_100(self.compliant_usage_count, self.total_usage_count)

\* the compliance_score calculate_score assigns
score_of(self) ==
    IF self.total_usage_count = 0 THEN 100
    ELSE int_ratio_times_100(self.compliant_usage_count, self.total_usage_count)

level_of_above_threshold(compliance_score) ==
    IF compliance_score > 90 THEN "excellent"
    ELSE IF compliance_score > 75 THEN "good"
    ELSE IF compliance_score > 50 THEN "warning"
    ELSE "violation"

\* the compliance_level calculate_score assigns to a score
level_of(compliance_score) ==
    IF compliance_score >= 90 THEN "excellent"
    ELSE IF compliance_score >= 75 THEN "good"
    ELSE IF compliance_score >= 50 THEN "warning"
    ELSE "violation"

\* ComplianceStatus.calculate_score: the object as it is saved
calculate_score(self) ==
    LET compliance_score == score_of(self)
    IN  [self EXCEPT !.compliance_score = compliance_score,
                     !.compliance_level = level_of(compliance_score)]

\* calculate_score() is called on the ComplianceStatus
CalculateScore ==
    /\ cs' = calculate_score(cs)
    /\ cs_pc' = "scored"
    /\ UNCHANGED <<now, policies, logs, insights>> /\ UNCHANGED site

----------------------------------------------------------------------------
(* Users, profiles and the answers of the dashboard routes *)

\* request.user of a client that is not logged in
AnonymousUser == "AnonymousUser"

\* a row of user_profile as create_user_profile creates it at time t
\* (data_collection_consent defaults to False, created_at is auto_now_add,
\* updated_at is auto_now)
Profile(u, t) ==
    [user |-> u, data_collection_consent |-> FALSE,
     created_at |-> t, updated_at |-> t]

\* what a dashboard route answers to client c: a status code and, for a
\* redirect, the route it points to
Response(c, view, status, location) ==
    [user |-> c, view |-> view, status |-> status, location |-> location]

\* no request served yet
NoResponse == Response(AnonymousUser, "", 0, "")

\* every user has registered (each got its profile from create_user_profile),
\* nobody has submitted feedback, no request is being served
InitSite ==
    /\ users = Users
    /\ profiles = SetToBag({Profile(u, 0) : u \in Users})
    /\ feedback = EmptyBag
    /\ response = NoResponse
    /\ requests = << >>

----------------------------------------------------------------------------
(* The dashboard routes (views.py), each behind @login_required *)

\* request.user.is_authenticated
is_authenticated(c) == c # AnonymousUser

\* what @login_required answers instead of calling the view: a redirect to
\* the login page, nothing stored
redirect_to_login(c, view) ==
    /\ response' = Response(c, view, 302, "login")
    /\ UNCHANGED <<now, policies, logs, insights, cs, cs_pc,
                   users, profiles, feedback, requests>>

login_required_absent(c) == TRUE

\* @login_required
login_required(c) == is_authenticated(c)

\* dashboard_view: only reads
dashboard_view(c) ==
    IF ~login_required(c) THEN redirect_to_login(c, "dashboard")
    ELSE /\ response' = Response(c, "dashboard", 200, "")
         /\ UNCHANGED <<now, policies, logs, insights, cs, cs_pc,
                        users, profiles, feedback, requests>>

\* dashboard_view: UserInsight.objects.filter(user=u, is_read=False,
\* is_dismissed=False), of which the page shows the first five
unread_insights(ins, u) ==
    [r \in {x \in DOMAIN ins : x.user = u /\ ~x.is_read /\ ~x.is_dismissed}
        |-> ins[r]]

AI_TOOL_CHOICES == {"chatgpt", "copilot", "claude", "gemini", "other"}

USAGE_TYPE_CHOICES ==
    {"code_generation", "code_explanation", "debugging", "documentation",
     "learning", "research", "other"}

\* request.POST as AIUsageLogForm reads it: the two choice fields and the two
\* numbers (description, course_code and assignment_id accept any text,
\* blank included)
Form(ai_tool, usage_type, duration_minutes, tokens_used) ==
    [ai_tool |-> ai_tool, usage_type |-> usage_type,
     duration_minutes |-> duration_minutes, tokens_used |-> tokens_used]

\* a form that validates
ValidForm == Form("chatgpt", "debugging", 0, 0)

errors_choices_only(data) ==
    {f \in {"ai_tool"} : data.ai_tool \notin AI_TOOL_CHOICES}
        \cup {f \in {"usage_type"} : data.usage_type \notin USAGE_TYPE_CHOICES}

\* form.errors: the fields that fail validation (a choice field holds one of
\* its choices, MinValueValidator(0) on the two numbers)
errors(data) ==
    {f \in {"ai_tool"} : data.ai_tool \notin AI_TOOL_CHOICES}
        \cup {f \in {"usage_type"} : data.usage_type \notin USAGE_TYPE_CHOICES}
        \cup {f \in {"duration_minutes"} : data.duration_minutes < 0}
        \cup {f \in {"tokens_used"} : data.tokens_used < 0}

\* form.is_valid()
is_valid(data) == errors(data) = {}

\* render(request, template, {'form': form}) of a bound form: the page with
\* the form and the error messages of its fields
FormResponse(c, view, form_errors) ==
    [user |-> c, view |-> view, status |-> 200, location |-> "",
     errors |-> form_errors]

\* log_usage_view: GET renders the form; POST of a valid form attaches the
\* active policy, saves the row (AIUsageLog.save, then the post_save handler)
\* and redirects to the dashboard; POST of a form that is not valid renders
\* the form with its errors.  (The columns a row takes from the form play no
\* part in any query of the code and are not kept in the rows of the model.)
log_usage_view(c, method, data, maxLogs) ==
    IF ~login_required(c) THEN redirect_to_login(c, "log_usage")
    ELSE IF method = "POST" /\ ~is_valid(data) THEN
        /\ response' = FormResponse(c, "log_usage", errors(data))
        /\ UNCHANGED <<now, policies, logs, insights, cs, cs_pc,
                       users, profiles, feedback, requests>>
    ELSE IF method = "POST" THEN
        LET active_policy == ActivePolicyQuery(policies, date(now))
            usage_log     == save(NewLog(c, now, active_policy), policies, logs, now)
            stored        == logs (+) SetToBag({usage_log})
        IN  /\ count(logs) < maxLogs
            /\ logs' = stored
            /\ insights' = generate_usage_insights(usage_log, TRUE, stored, insights, now)
            /\ response' = Response(c, "log_usage", 302, "dashboard")
            /\ UNCHANGED <<now, policies, cs, cs_pc,
                           users, profiles, feedback, requests>>
    ELSE /\ response' = Response(c, "log_usage", 200, "")
         /\ UNCHANGED <<now, policies, logs, insights, cs, cs_pc,
                        users, profiles, feedback, requests>>

\* usage_history_view: only reads
usage_history_view(c) ==
    IF ~login_required(c) THEN redirect_to_login(c, "usage_history")
    ELSE /\ response' = Response(c, "usage_history", 200, "")
         /\ UNCHANGED <<now, policies, logs, insights, cs, cs_pc,
                        users, profiles, feedback, requests>>

insights_listing_of_everyone(ins, u) ==
    [r \in {x \in DOMAIN ins : ~x.is_dismissed} |-> ins[r]]

insights_listing_with_dismissed(ins, u) ==
    [r \in {x \in DOMAIN ins : x.user = u} |-> ins[r]]

\* insights_view: UserInsight.objects.filter(user=u, is_dismissed=False)
insights_listing(ins, u) ==
    [r \in {x \in DOMAIN ins : x.user = u /\ ~x.is_dismissed} |-> ins[r]]

\* QuerySet.update(is_read=True) on the rows `sel` of the table ins
update_is_read(ins, sel) ==
    (ins (-) sel)
        (+) BagOfAll(LAMBDA r : [r EXCEPT !.is_read = TRUE], sel)

\* insights_view: lists the user's insights that are not dismissed and marks
\* the unread ones among them as read
insights_view(c) ==
    IF ~login_required(c) THEN redirect_to_login(c, "insights")
    ELSE
        LET listing == insights_listing(insights, c)
            unread  == [r \in {x \in DOMAIN listing : ~x.is_read} |-> listing[r]]
        IN  /\ insights' = update_is_read(insights, unread)
            /\ response' = Response(c, "insights", 200, "")
            /\ UNCHANGED <<now, policies, logs, cs, cs_pc,
                           users, profiles, feedback, requests>>

\* an insight_id that no row of user_insight has
NoInsight == [user |-> AnonymousUser]

get_insight_or_404_by_id_only(ins, target, u) ==
    IF target # NoInsight /\ BagIn(target, ins)
    THEN target ELSE NoInsight

\* get_object_or_404(UserInsight, id=insight_id, user=u), the row with the
\* requested id being `target`: the row, or NoInsight for Http404
get_insight_or_404(ins, target, u) ==
    IF target # NoInsight /\ BagIn(target, ins) /\ target.user = u
    THEN target ELSE NoInsight

\* dismiss_insight_view: the insight of the requesting user with the requested
\* id is saved with is_dismissed = True
dismiss_insight_view(c, target) ==
    IF ~login_required(c) THEN redirect_to_login(c, "dismiss_insight")
    ELSE
        LET insight == get_insight_or_404(insights, target, c)
        IN  IF insight = NoInsight
            THEN /\ response' = Response(c, "dismiss_insight", 404, "")
                 /\ UNCHANGED <<now, policies, logs, insights, cs, cs_pc,
                                users, profiles, feedback, requests>>
            ELSE /\ insights' = (insights (-) SetToBag({insight}))
                        (+) SetToBag({[insight EXCEPT !.is_dismissed = TRUE]})
                 /\ response' = Response(c, "dismiss_insight", 302, "insights")
                 /\ UNCHANGED <<now, policies, logs, cs, cs_pc,
                                users, profiles, feedback, requests>>

FEEDBACK_STATUS_CHOICES == {"new", "reviewing", "planned", "resolved", "closed"}

\* a row of user_feedback as the feedback form saves it (status defaults to
\* 'new')
Feedback(u, type, t) ==
    [user |-> u, feedback_type |-> type, status |-> "new", submitted_at |-> t]

\* feedback_view: GET renders the form; POST of a valid form stores the
\* feedback of the requesting user and redirects to the dashboard
feedback_view(c, method, type, maxFeedback) ==
    IF ~login_required(c) THEN redirect_to_login(c, "feedback")
    ELSE IF method = "POST" THEN
        /\ count(feedback) < maxFeedback
        /\ feedback' = feedback (+) SetToBag({Feedback(c, type, now)})
        /\ response' = Response(c, "feedback", 302, "dashboard")
        /\ UNCHANGED <<now, policies, logs, insights, cs, cs_pc,
                       users, profiles, requests>>
    ELSE /\ response' = Response(c, "feedback", 200, "")
         /\ UNCHANGED <<now, policies, logs, insights, cs, cs_pc,
                        users, profiles, feedback, requests>>

\* request.user.profile
profile_of(prof, u) == [r \in {x \in DOMAIN prof : x.user = u} |-> prof[r]]

\* profile_view: GET renders the profile; POST of a valid form saves the
\* profile of the requesting user with the submitted consent flag
profile_view(c, method, consent) ==
    IF ~login_required(c) THEN redirect_to_login(c, "profile")
    ELSE IF method = "POST" THEN
        LET profile == profile_of(profiles, c)
        IN  /\ profile # EmptyBag
            /\ profiles' = (profiles (-) profile)
                  (+) BagOfAll(LAMBDA r :
                          [r EXCEPT !.data_collection_consent = consent,
                                    !.updated_at = now], profile)
            /\ response' = Response(c, "profile", 302, "profile")
            /\ UNCHANGED <<now, policies, logs, insights, cs, cs_pc,
                           users, feedback, requests>>
    ELSE /\ response' = Response(c, "profile", 200, "")
         /\ UNCHANGED <<now, policies, logs, insights, cs, cs_pc,
                        users, profiles, feedback, requests>>

\* QuerySet.values(...) of the export: the exported columns of a row
values(rows, columns) ==
    BagOfAll(LAMBDA r : [f \in columns \cap DOMAIN r |-> r[f]], rows)

export_data_every_log(u) ==
    [user       |-> [username |-> u],
     profile    |-> values(profile_of(profiles, u), {"data_collection_consent"}),
     usage_logs |-> values(logs, {"is_compliant", "timestamp"}),
     insights   |-> values([r \in {x \in DOMAIN insights : x.user = u}
                               |-> insights[r]],
                           {"insight_type", "title", "message", "priority",
                            "generated_at"}),
     feedback   |-> values([r \in {x \in DOMAIN feedback : x.user = u}
                               |-> feedback[r]],
                           {"feedback_type", "status", "submitted_at"})]

\* export_data_view: the JSON document assembled for user u
export_data(u) ==
    [user       |-> [username |-> u],
     profile    |-> values(profile_of(profiles, u), {"data_collection_consent"}),
     usage_logs |-> values(LogsOf(logs, u), {"is_compliant", "timestamp"}),
     insights   |-> values([r \in {x \in DOMAIN insights : x.user = u}
                               |-> insights[r]],
                           {"insight_type", "title", "message", "priority",
                            "generated_at"}),
     feedback   |-> values([r \in {x \in DOMAIN feedback : x.user = u}
                               |-> feedback[r]],
                           {"feedback_type", "status", "submitted_at"})]

\* export_data_view: only reads
export_data_view(c) ==
    IF ~login_required(c) THEN redirect_to_login(c, "export_data")
    ELSE /\ response' = Response(c, "export_data", 200, "")
         /\ UNCHANGED <<now, policies, logs, insights, cs, cs_pc,
                        users, profiles, feedback, requests>>

\* admin: the change form of a UserInsight is saved with the flags is_read
\* and is_dismissed as entered
AdminEditInsight(r, read, dismissed) ==
    /\ BagIn(r, insights)
    /\ r.is_read # read \/ r.is_dismissed # dismissed
    /\ insights' = (insights (-) SetToBag({r}))
          (+) SetToBag({[r EXCEPT !.is_read = read, !.is_dismissed = dismissed]})
    /\ UNCHANGED <<now, policies, logs, cs, cs_pc>> /\ UNCHANGED site

\* admin: a UserInsight of the given type is added for user u (is_read and
\* is_dismissed at their default False, generated_at is auto_now_add)
AdminAddInsight(u, type, maxInsights) ==
    /\ count(insights) < maxInsights
    /\ insights' = create(insights, Insight(u, type, <<type>>, << >>, "medium", now))
    /\ UNCHANGED <<now, policies, logs, cs, cs_pc>> /\ UNCHANGED site

\* admin: the change form of a UserFeedback is saved with the status entered,
\* one of STATUS_CHOICES
AdminEditFeedback(r, status) ==
    /\ BagIn(r, feedback)
    /\ status \in FEEDBACK_STATUS_CHOICES
    /\ r.status # status
    /\ feedback' = (feedback (-) SetToBag({r}))
          (+) SetToBag({[r EXCEPT !.status = status]})
    /\ UNCHANGED <<now, policies, logs, insights, cs, cs_pc,
                   users, profiles, response, requests>>

----------------------------------------------------------------------------
(* Users and the post_save handlers of User (signals.py) *)

create_user_profile_on_every_save(prof, instance, created, t) ==
    prof (+) SetToBag({Profile(instance, t)})

\* signals.create_user_profile: the profiles after the handler ran
create_user_profile(prof, instance, created, t) ==
    IF created THEN prof (+) SetToBag({Profile(instance, t)}) ELSE prof

\* signals.save_user_profile: if the user has a profile, the profile is saved
\* (updated_at is auto_now)
save_user_profile(prof, instance, t) ==
    LET profile == profile_of(prof, instance)
    IN  IF profile # EmptyBag
        THEN (prof (-) profile)
                (+) BagOfAll(LAMBDA r : [r EXCEPT !.updated_at = t], profile)
        ELSE prof

\* User.save at time t: post_save runs both handlers, in the order they are
\* connected
user_post_save(prof, instance, created, t) ==
    save_user_profile(create_user_profile(prof, instance, created, t), instance, t)

\* register_view: a logged-in client is sent to the dashboard; POST of a valid
\* form (the username is not taken) saves the new user and redirects to login;
\* anything else renders the form
register_view(c, method, username) ==
    IF is_authenticated(c)
    THEN /\ response' = Response(c, "register", 302, "dashboard")
         /\ UNCHANGED <<now, policies, logs, insights, cs, cs_pc,
                        users, profiles, feedback, requests>>
    ELSE IF method = "POST" /\ username \notin users
    THEN /\ users' = users \cup {username}
         /\ profiles' = user_post_save(profiles, username, TRUE, now)
         /\ response' = Response(c, "register", 302, "login")
         /\ UNCHANGED <<now, policies, logs, insights, cs, cs_pc,
                        feedback, requests>>
    ELSE /\ response' = Response(c, "register", 200, "")
         /\ UNCHANGED <<now, policies, logs, insights, cs, cs_pc,
                        users, profiles, feedback, requests>>

\* login_view, POST with the credentials of user u by a client that is not
\* logged in: login() records last_login, which saves the user again
login_view(u) ==
    /\ u \in users
    /\ profiles' = user_post_save(profiles, u, FALSE, now)
    /\ response' = Response(u, "login", 302, "dashboard")
    /\ UNCHANGED <<now, policies, logs, insights, cs, cs_pc,
                   users, feedback, requests>>

----------------------------------------------------------------------------
(* log_usage_view served for several clients at once: the view and       *)
(* AIUsageLog.save run in no transaction and take no lock, so the        *)
(* queries of check_compliance and the INSERT of super().save() are      *)
(* separate statements that other requests interleave with               *)

\* a request slot that serves no request
Idle == [user |-> AnonymousUser]

\* log_usage_view up to the end of check_compliance, for request slot p and
\* user u: the active policy is attached and the verdict is computed from the
\* rows stored now; the row itself is not yet stored
BeginLogUsage(p, u, maxLogs) ==
    LET active_policy == ActivePolicyQuery(policies, date(now))
        usage_log     == save(NewLog(u, now, active_policy), policies, logs, now)
    IN  /\ requests[p] = Idle
        /\ count(logs) < maxLogs
        /\ requests' = [requests EXCEPT ![p] = usage_log]
        /\ UNCHANGED <<now, policies, logs, insights, cs, cs_pc,
                       users, profiles, feedback, response>>

\* the rest of the request in slot p: super().save() inserts the row with the
\* verdict computed before (timestamp is auto_now_add), the post_save handler
\* runs, and the view redirects to the dashboard
FinishLogUsage(p, maxLogs) ==
    LET usage_log == [requests[p] EXCEPT !.timestamp = now]
        stored    == logs (+) SetToBag({usage_log})
    IN  /\ requests[p] # Idle
        /\ count(logs) < maxLogs
        /\ logs' = stored
        /\ insights' = generate_usage_insights(usage_log, TRUE, stored, insights, now)
        /\ response' = Response(usage_log.user, "log_usage", 302, "dashboard")
        /\ requests' = [requests EXCEPT ![p] = Idle]
        /\ UNCHANGED <<now, policies, cs, cs_pc, users, profiles, feedback>>

\* The post_save handler of AIUsageLog runs in the request that saved the
\* row, after the INSERT and in no transaction of its own: its queries and its
\* INSERTs into user_insight are separate statements as well.

\* a request slot whose request is at position pc of the handler
Handler(u, pc, since, today_usage) ==
    [user |-> u, pc |-> pc, today_start |-> since, today_usage |-> today_usage]

\* the request in slot p has computed its verdict and not yet stored its row
checked(req) == req # Idle /\ "pc" \notin DOMAIN req

\* super().save() of the request in slot p: the row is inserted with the
\* verdict computed before (timestamp is auto_now_add); post_save is sent
\* with created=True and the handler starts
InsertLog(p, maxLogs) ==
    LET usage_log == [requests[p] EXCEPT !.timestamp = now]
    IN  /\ checked(requests[p])
        /\ count(logs) < maxLogs
        /\ logs' = logs (+) SetToBag({usage_log})
        /\ requests' = [requests EXCEPT
                           ![p] = Handler(usage_log.user, "created", 0, 0)]
        /\ UNCHANGED <<now, policies, insights, cs, cs_pc,
                       users, profiles, feedback, response>>

\* generate_usage_insights up to the condition of the warning: today_start
\* is taken from the clock, today's events of the user are counted and the
\* user's warnings since today_start are looked up; today_usage is kept when
\* a warning is due, 0 otherwise
HandlerCheckWarning(p) ==
    LET user        == requests[p].user
        since       == today_start(now)
        today_usage == count(LogsSince(logs, user, since))
        due         == today_usage >= HighUsageToday
                          /\ ~WarningExists(insights, user, since)
    IN  /\ requests[p] # Idle
        /\ "pc" \in DOMAIN requests[p]
        /\ requests[p].pc = "created"
        /\ requests' = [requests EXCEPT
                           ![p] = Handler(user, "checked", since,
                                          IF due THEN today_usage ELSE 0)]
        /\ UNCHANGED <<now, policies, logs, insights, cs, cs_pc,
                       users, profiles, feedback, response>>

\* the rest of generate_usage_insights and of the request: the warning that
\* was found due is created, the user's events of all time are counted and an
\* achievement is created when the count is a milestone; the view redirects
\* to the dashboard
HandlerCreateInsights(p) ==
    LET user        == requests[p].user
        today_usage == requests[p].today_usage
        ins1        == IF today_usage # 0
                       THEN create(insights, WarningInsight(user, today_usage, now))
                       ELSE insights
        total_usage == count(LogsOf(logs, user))
    IN  /\ requests[p] # Idle
        /\ "pc" \in DOMAIN requests[p]
        /\ requests[p].pc = "checked"
        /\ insights' = IF total_usage \in milestones
                       THEN create(ins1, AchievementInsight(user, total_usage, now))
                       ELSE ins1
        /\ response' = Response(user, "log_usage", 302, "dashboard")
        /\ requests' = [requests EXCEPT ![p] = Idle]
        /\ UNCHANGED <<now, policies, logs, cs, cs_pc, users, profiles, feedback>>

----------------------------------------------------------------------------
(* Specifications *)

InitDb ==
    /\ now = 0
    /\ policies = << >>
    /\ logs = EmptyBag
    /\ insights = EmptyBag
    /\ cs = NewStatus
    /\ cs_pc = "stored"
    /\ InitSite

\* Spec: users log usage against the one policy an administrator has created
\* and keeps editing; the administrator also saves usage logs again and
\* deletes them; time passes
InitOnePolicy ==
    /\ now = 0
    /\ policies \in {<<p>> : p \in LimitPolicies}
    /\ logs = EmptyBag
    /\ insights = EmptyBag
    /\ cs = NewStatus
    /\ cs_pc = "stored"
    /\ InitSite

Next ==
    \/ \E i \in 1..MaxPolicies, p \in LimitPolicies : EditPolicy(i, p)
    \/ Tick(1, MaxNow)
    \/ \E u \in Users : LogUsage(u, MaxLogs)
    \/ \E r \in BagToSet(logs) : ResaveLog(r)
    \/ \E r \in BagToSet(logs) : DeleteLog(r)

Spec == InitOnePolicy /\ [][Next]_vars

\* SpecFixed: users log usage against one fixed active policy while time
\* passes; nothing else touches the tables
InitFixed ==
    /\ now = 0
    /\ policies \in {<<p>> : p \in FixedPolicies}
    /\ logs = EmptyBag
    /\ insights = EmptyBag
    /\ cs = NewStatus
    /\ cs_pc = "stored"
    /\ InitSite

NextFixed ==
    \/ \E u \in Users : LogUsage(u, MaxInserts)
    \/ Tick(1, MaxNow)

SpecFixed == InitFixed /\ [][NextFixed]_vars

\* SpecScore: calculate_score runs on a stored ComplianceStatus whose counts
\* no code of the application maintains: they are whatever was stored
\* (compliant_usage_count may exceed total_usage_count)
StoredStatuses ==
    {[total_usage_count |-> total, compliant_usage_count |-> compliant,
      violation_count |-> violations,
      compliance_score |-> 0, compliance_level |-> "violation"] :
        total \in 0..MaxCount,
        compliant \in 0..(MaxCount + 1),
        violations \in 0..MaxViolations}

InitScore ==
    /\ now = 0
    /\ policies = << >>
    /\ logs = EmptyBag
    /\ insights = EmptyBag
    /\ cs \in StoredStatuses
    /\ cs_pc = "stored"
    /\ InitSite

NextScore == CalculateScore

SpecScore == InitScore /\ [][NextScore]_vars

\* SpecInsights: users log many usage events against a policy with the
\* default limits, the administrator deletes usage logs, days pass
\* rows of user_insight from which SpecInsights logs no more usage: every
\* milestone within reach achieved twice, and a warning on each day
MaxInsights ==
    2 * Cardinality({m \in milestones : m <= MaxInsightLogs}) + date(MaxNow) + 1

InitInsights ==
    /\ now = 0
    /\ policies = <<Policy("active", 0, NoDate, DefaultDaily, DefaultWeekly)>>
    /\ logs = EmptyBag
    /\ insights = EmptyBag
    /\ cs = NewStatus
    /\ cs_pc = "stored"
    /\ InitSite

NextInsights ==
    \/ \E u \in Users :
          /\ count(insights) < MaxInsights
          /\ u = "u1" \/ count(LogsOf(logs, u)) < MaxOtherLogs
          /\ LogUsage(u, MaxInsightLogs)
    \/ \E r \in BagToSet(logs) : DeleteLog(r)
    \/ Tick(TicksPerDay, MaxNow)

SpecInsights == InitInsights /\ [][NextInsights]_vars

\* SpecPolicy: administrators create and edit policies while time passes
NextPolicy ==
    \/ \E p \in AllPolicies : CreatePolicy(p)
    \/ \E i \in 1..MaxPolicies, p \in AllPolicies : EditPolicy(i, p)
    \/ Tick(1, MaxNow + TicksPerDay)

SpecPolicy == InitDb /\ [][NextPolicy]_vars

\* SpecSite: registered users and clients that are not logged in request the
\* dashboard routes (u1 logs most of the usage); the administrator edits
\* insights
Clients == Users \cup {AnonymousUser}

METHODS == {"GET", "POST"}

NextSite ==
    \/ \E c \in Clients : dashboard_view(c)
    \/ \E c \in Clients, method \in METHODS :
          /\ c = "u1" \/ count(LogsOf(logs, c)) < MaxOtherLogs
          /\ log_usage_view(c, method, ValidForm, MaxSiteLogs)
    \/ \E c \in Clients : usage_history_view(c)
    \/ \E c \in Clients : insights_view(c)
    \/ \E c \in Clients, target \in BagToSet(insights) \cup {NoInsight} :
          dismiss_insight_view(c, target)
    \/ \E c \in Clients, method \in METHODS :
          feedback_view(c, method, "bug", MaxSiteFeedback)
    \/ \E c \in Clients, method \in METHODS, consent \in BOOLEAN :
          profile_view(c, method, consent)
    \/ \E c \in Clients : export_data_view(c)
    \/ \E r \in BagToSet(insights), read \in BOOLEAN, dismissed \in BOOLEAN :
          AdminEditInsight(r, read, dismissed)

SpecSite == InitDb /\ [][NextSite]_vars

\* SpecWeekly: one user logs usage against one fixed active policy with small
\* daily and weekly limits, for a little more than a week
WeeklyPolicies ==
    {Policy("active", 0, NoDate, daily, weekly) :
        daily \in 1..MaxWeekLimit, weekly \in 1..MaxWeekLimit}

\* last clock value of SpecWeekly: the last tick of the day one week after
\* day 0
MaxWeekNow == (DaysPerWeek + 1) * TicksPerDay - 1

InitWeekly ==
    /\ now = 0
    /\ policies \in {<<p>> : p \in WeeklyPolicies}
    /\ logs = EmptyBag
    /\ insights = EmptyBag
    /\ cs = NewStatus
    /\ cs_pc = "stored"
    /\ InitSite

NextWeekly ==
    \/ LogUsage("u1", MaxWeekLogs)
    \/ Tick(1, MaxWeekNow)

SpecWeekly == InitWeekly /\ [][NextWeekly]_vars

\* SpecMonotone: one user logs usage against one fixed active policy with
\* small daily and weekly limits, on one day and on the same weekday one week
\* later
LoggingDays == {0, DaysPerWeek}

NextMonotone ==
    \/ date(now) \in LoggingDays /\ LogUsage("u1", MaxMonotoneLogs)
    \/ Tick(1, MaxWeekNow)

SpecMonotone == InitWeekly /\ [][NextMonotone]_vars

\* SpecReading: the administrator adds insights for the users and edits
\* their flags; users and clients that are not logged in open the insights
\* page and dismiss insights
ReadingTypes == {"recommendation", "compliance"}

NextReading ==
    \/ \E u \in Users, type \in ReadingTypes :
          AdminAddInsight(u, type, MaxReadingInsights)
    \/ \E r \in BagToSet(insights), read \in BOOLEAN, dismissed \in BOOLEAN :
          AdminEditInsight(r, read, dismissed)
    \/ \E c \in Clients : insights_view(c)
    \/ \E c \in Clients, target \in BagToSet(insights) \cup {NoInsight} :
          dismiss_insight_view(c, target)

SpecReading == InitDb /\ [][NextReading]_vars

\* SpecForms: users and clients that are not logged in submit the usage form,
\* filled in correctly or not, against a policy with the default limits; time
\* passes
FormData ==
    {ValidForm,
     Form("skynet", "debugging", 30, 0),
     Form("claude", "", 30, 0),
     Form("copilot", "learning", -1, 0),
     Form("other", "research", 30, -1),
     Form("", "cheating", -1, -1)}

NextForms ==
    \/ \E c \in Clients, method \in METHODS, data \in FormData :
          log_usage_view(c, method, data, MaxFormLogs)
    \/ Tick(1, MaxNow)

SpecForms == InitInsights /\ [][NextForms]_vars

\* SpecUsers: clients register, users log in (which saves the user again) and
\* edit their profile, time passes
InitUsers ==
    /\ now = 0
    /\ policies = << >>
    /\ logs = EmptyBag
    /\ insights = EmptyBag
    /\ cs = NewStatus
    /\ cs_pc = "stored"
    /\ users = {}
    /\ profiles = EmptyBag
    /\ feedback = EmptyBag
    /\ response = NoResponse
    /\ requests = << >>

NextUsers ==
    \/ \E c \in users \cup {AnonymousUser}, method \in METHODS, username \in Users :
          register_view(c, method, username)
    \/ \E u \in users : login_view(u)
    \/ \E c \in users \cup {AnonymousUser}, method \in METHODS, consent \in BOOLEAN :
          profile_view(c, method, consent)
    \/ Tick(1, MaxNow)

SpecUsers == InitUsers /\ [][NextUsers]_vars

\* SpecFeedback: users submit feedback, the administrator sets its status
NextFeedback ==
    \/ \E c \in Clients, method \in METHODS :
          feedback_view(c, method, "bug", MaxFeedback)
    \/ \E r \in BagToSet(feedback), status \in FEEDBACK_STATUS_CHOICES :
          AdminEditFeedback(r, status)

SpecFeedback == InitDb /\ [][NextFeedback]_vars

\* SpecSelect: the administrator has created several policies, of any status
\* and effective dates; users log usage, time passes
SelectPolicies ==
    {Policy(st, from, until, DefaultDaily, DefaultWeekly) :
        st \in {"active", "archived"},
        from \in 0..date(MaxNow),
        until \in {NoDate} \cup (0..date(MaxNow))}

InitSelect ==
    /\ now = 0
    /\ policies \in [1..MaxSelectPolicies -> SelectPolicies]
    /\ logs = EmptyBag
    /\ insights = EmptyBag
    /\ cs = NewStatus
    /\ cs_pc = "stored"
    /\ InitSite

NextSelect ==
    \/ \E u \in Users : LogUsage(u, MaxSelectLogs)
    \/ Tick(1, MaxNow)

SpecSelect == InitSelect /\ [][NextSelect]_vars

\* SpecRace: users submit usage events at the same time against one fixed
\* active policy, time passes
RacePolicies ==
    {Policy("active", 0, NoDate, daily, DefaultWeekly) :
        daily \in 1..MaxRaceLimit}

InitRace ==
    /\ now = 0
    /\ policies \in {<<p>> : p \in RacePolicies}
    /\ logs = EmptyBag
    /\ insights = EmptyBag
    /\ cs = NewStatus
    /\ cs_pc = "stored"
    /\ users = Users
    /\ profiles = SetToBag({Profile(u, 0) : u \in Users})
    /\ feedback = EmptyBag
    /\ response = NoResponse
    /\ requests = [p \in 1..MaxRequests |-> Idle]

NextRace ==
    \/ \E p \in 1..MaxRequests, u \in Users : BeginLogUsage(p, u, MaxRaceLogs)
    \/ \E p \in 1..MaxRequests : FinishLogUsage(p, MaxRaceLogs)
    \/ Tick(1, MaxNow)

SpecRace == InitRace /\ [][NextRace]_vars

\* SpecHandlers: one user submits many usage events at the same time against
\* a policy with the default limits, within one tick of the clock; every
\* request runs statement by statement
InitHandlers ==
    /\ now = 0
    /\ policies = <<Policy("active", 0, NoDate, DefaultDaily, DefaultWeekly)>>
    /\ logs = EmptyBag
    /\ insights = EmptyBag
    /\ cs = NewStatus
    /\ cs_pc = "stored"
    /\ users = Users
    /\ profiles = SetToBag({Profile(u, 0) : u \in Users})
    /\ feedback = EmptyBag
    /\ response = NoResponse
    /\ requests = [p \in 1..MaxRequests |-> Idle]

NextHandlers ==
    \/ \E p \in 1..MaxRequests : BeginLogUsage(p, "u1", MaxHandlerLogs)
    \/ \E p \in 1..MaxRequests : InsertLog(p, MaxHandlerLogs)
    \/ \E p \in 1..MaxRequests : HandlerCheckWarning(p)
    \/ \E p \in 1..MaxRequests : HandlerCreateInsights(p)

SpecHandlers == InitHandlers /\ [][NextHandlers]_vars

----------------------------------------------------------------------------
(* C2 *)

\* C2 as stated: is_active() is true iff status = active and today lies in the
\* half-open interval [effective_from, effective_until), open-ended when
\* effective_until is missing.
C2_HalfOpenInterval ==
    \A i \in DOMAIN policies :
        is_active(policies[i], date(now)) <=>
            /\ policies[i].status = "active"
            /\ policies[i].effective_from <= date(now)
            /\ (policies[i].effective_until = NoDate
                \/ date(now) < policies[i].effective_until)

\* C2 amended: is_active() is true iff status = active and today lies in the
\* closed interval [effective_from, effective_until] (effective_until itself
\* is still an active day), open-ended when effective_until is missing.
C2_ClosedInterval ==
    \A i \in DOMAIN policies :
        is_active(policies[i], date(now)) <=>
            /\ policies[i].status = "active"
            /\ policies[i].effective_from <= date(now)
            /\ (policies[i].effective_until = NoDate
                \/ date(now) <= policies[i].effective_until)

\* an active-status policy on its last day, effective_until = today, after
\* it had started: is_active() answers true
C2_Witness ==
    \E i \in DOMAIN policies :
        /\ policies[i].status = "active"
        /\ policies[i].effective_from < policies[i].effective_until
        /\ policies[i].effective_until = date(now)
        /\ is_active(policies[i], date(now))

----------------------------------------------------------------------------
(* C1 *)

\* the events of user u stored in lg whose timestamp falls on calendar day d
SameDayEvents(lg, u, d) ==
    BagCardinality([r \in {x \in DOMAIN lg : x.user = u /\ date(x.timestamp) = d}
                        |-> lg[r]])

\* the events of user u stored in lg that are not older than 7 days at time t
TrailingWeekEvents(lg, u, t) ==
    BagCardinality([r \in {x \in DOMAIN lg :
                              x.user = u /\ t - x.timestamp <= DaysPerWeek * TicksPerDay}
                        |-> lg[r]])

\* the events of user u on day d stored in lg with verdict v
SameDayVerdicts(lg, u, d, v) ==
    BagCardinality([r \in {x \in DOMAIN lg :
                              x.user = u /\ date(x.timestamp) = d /\ x.is_compliant = v}
                        |-> lg[r]])

\* C1: against one fixed active policy with max_daily_usage = N, the weekly
\* limit not being reached, every insert of a usage event marks the event
\* non-compliant exactly when the user already has N or more events of the
\* same day (events of other users are not counted): the first N events of a
\* day are compliant, the (N+1)-th is not.
C1_DailyLimit ==
    [][\A r \in BagToSet(logs') :
          (/\ logs' = logs (+) SetToBag({r})
           /\ TrailingWeekEvents(logs, r.user, now) < policies[1].max_weekly_usage)
          => (r.is_compliant
                <=> SameDayEvents(logs, r.user, date(now)) < policies[1].max_daily_usage)
      ]_vars

\* max_daily_usage = 5 and six events of one user on one day: five are
\* compliant, one (the sixth) is not
C1_Witness ==
    /\ policies[1].max_daily_usage = 5
    /\ \E u \in Users :
          /\ SameDayEvents(logs, u, date(now)) = 6
          /\ SameDayVerdicts(logs, u, date(now), TRUE) = 5
          /\ SameDayVerdicts(logs, u, date(now), FALSE) = 1

----------------------------------------------------------------------------
(* C3 *)

\* C3: once a usage event is stored, its verdict (is_compliant and
\* compliance_notes) never changes: in every step that deletes no usage log,
\* every stored row is still stored, as many times, with the same verdict.
C3_VerdictNeverRecomputed ==
    [][count(logs') >= count(logs)
          => \A r \in BagToSet(logs) : CopiesIn(r, logs') >= CopiesIn(r, logs)
      ]_vars

----------------------------------------------------------------------------
(* C4 *)

\* C4 as stated: calculate_score sets score = round(compliant / total * 100),
\* rounded to the nearest integer, whenever total > 0 and
\* 0 <= compliant <= total.
C4_ScoreIsRounded ==
    (/\ cs_pc = "scored"
     /\ cs.total_usage_count > 0
     /\ 0 <= cs.compliant_usage_count
     /\ cs.compliant_usage_count <= cs.total_usage_count)
    => cs.compliance_score
         = RoundHalfEven(100 * cs.compliant_usage_count, cs.total_usage_count)

\* C4 amended: calculate_score sets score = int(compliant / total * 100), the
\* percentage truncated to an integer, whenever total > 0 and
\* 0 <= compliant <= total: the score is floor(100 * compliant / total), but
\* where 100 * compliant / total is an exact integer the float product may
\* fall just below it and the score is then one less (29 of 50 gives 57).
C4_ScoreIsTruncated ==
    (/\ cs_pc = "scored"
     /\ cs.total_usage_count > 0
     /\ 0 <= cs.compliant_usage_count
     /\ cs.compliant_usage_count <= cs.total_usage_count)
    => LET floor == (100 * cs.compliant_usage_count) \div cs.total_usage_count
           exact == (100 * cs.compliant_usage_count) % cs.total_usage_count = 0
       IN  \/ cs.compliance_score = floor
           \/ exact /\ cs.compliance_score = floor - 1

\* 2 compliant events of 3: 66.67 per cent is scored 66
C4_Witness ==
    /\ cs_pc = "scored"
    /\ cs.total_usage_count = 3
    /\ cs.compliant_usage_count = 2
    /\ cs.compliance_score = 66

----------------------------------------------------------------------------
(* C5 *)

\* C5: after calculate_score, whatever total_usage_count and
\* compliant_usage_count are stored, the compliance score is an integer in
\* 0..100.
C5_ScoreInRange ==
    cs_pc = "scored" => cs.compliance_score \in 0..100

----------------------------------------------------------------------------
(* C6 *)

\* C6: calculate_score on a ComplianceStatus with total_usage_count = 0
\* yields score 100 and level excellent, whatever the compliant and violation
\* counts are.
C6_NoUsageIsExcellent ==
    (cs_pc = "scored" /\ cs.total_usage_count = 0)
    => (cs.compliance_score = 100 /\ cs.compliance_level = "excellent")

\* a scored status without usage whose other counts are not zero
C6_Witness ==
    /\ cs_pc = "scored"
    /\ cs.total_usage_count = 0
    /\ cs.compliant_usage_count # 0
    /\ cs.violation_count # 0
    /\ cs.compliance_score = 100

----------------------------------------------------------------------------
(* C7 *)

\* C7: after calculate_score the level is a function of the score alone:
\* score >= 90 is excellent, 75 <= score < 90 is good, 50 <= score < 75 is
\* warning, score < 50 is violation.
C7_LevelFromScore ==
    cs_pc = "scored" =>
        /\ cs.compliance_level = "excellent" <=> cs.compliance_score >= 90
        /\ cs.compliance_level = "good"
              <=> (75 <= cs.compliance_score /\ cs.compliance_score < 90)
        /\ cs.compliance_level = "warning"
              <=> (50 <= cs.compliance_score /\ cs.compliance_score < 75)
        /\ cs.compliance_level = "violation" <=> cs.compliance_score < 50

\* a status scored exactly 75, the lowest score that is good
C7_Witness ==
    /\ cs_pc = "scored"
    /\ cs.compliance_score = 75
    /\ cs.compliance_level = "good"

----------------------------------------------------------------------------
(* C8 *)

\* the rows of user_insight of one type that a step adds
AddedInsights(type) ==
    LET added == insights' (-) insights
    IN  [i \in {x \in DOMAIN added : x.insight_type = type} |-> added[i]]

\* C8: the insert of the usage event that brings a user's all-time count to a
\* milestone m creates, in that step, exactly one achievement insight, of
\* medium priority, of that user, with m in its title; an insert at any other
\* count creates no achievement insight.
C8_MilestoneInsight ==
    [][\A u \in Users :
          count(LogsOf(logs', u)) = count(LogsOf(logs, u)) + 1
          => LET m == count(LogsOf(logs', u))
                 achievements == AddedInsights("achievement")
             IN  IF m \in {10, 50, 100, 250, 500, 1000}
                 THEN /\ BagCardinality(achievements) = 1
                      /\ \A i \in BagToSet(achievements) :
                            /\ i.user = u
                            /\ i.priority = "medium"
                            /\ i.title[2] = m
                 ELSE achievements = EmptyBag
      ]_vars

\* a user with exactly 10 usage events and one achievement insight titled
\* with 10, and another with exactly 50 and one titled with 50
C8_Witness ==
    \E u \in Users :
        /\ count(LogsOf(logs, u)) = 50
        /\ \E i \in BagToSet(insights) :
              /\ i.user = u /\ i.insight_type = "achievement" /\ i.title[2] = 10
              /\ CopiesIn(i, insights) = 1
        /\ \E i \in BagToSet(insights) :
              /\ i.user = u /\ i.insight_type = "achievement" /\ i.title[2] = 50

----------------------------------------------------------------------------
(* C9 *)

\* the achievement insights of user u for milestone m
MilestoneInsights(u, m) ==
    BagCardinality([i \in {x \in DOMAIN insights :
                              /\ x.user = u
                              /\ x.insight_type = "achievement"
                              /\ x.title[2] = m}
                        |-> insights[i]])

\* C9: over any sequence of inserts and deletions of usage events, a user
\* never has more than one achievement insight for the same milestone.
C9_OneInsightPerMilestone ==
    \A u \in Users : \A m \in milestones : MilestoneInsights(u, m) <= 1

----------------------------------------------------------------------------
(* C10 *)

\* the warning insights of user u generated on calendar day d
WarningsOfDay(ins, u, d) ==
    BagCardinality([i \in {x \in DOMAIN ins :
                              /\ x.user = u
                              /\ x.insight_type = "warning"
                              /\ date(x.generated_at) = d}
                        |-> ins[i]])

\* C10: the insert of a usage event of user u creates exactly one warning
\* insight, of high priority, if u then has 50 or more events of the day and
\* no warning insight of u was generated that day, and none otherwise; so a
\* user has at most one warning insight per day, and has one as soon as the
\* 50th event of the day is inserted.
C10_OneWarningPerDay ==
    [][\A u \in Users :
          count(LogsOf(logs', u)) = count(LogsOf(logs, u)) + 1
          => LET warnings == AddedInsights("warning")
                 today    == date(now)
             IN  /\ IF /\ SameDayEvents(logs', u, today) >= 50
                       /\ WarningsOfDay(insights, u, today) = 0
                    THEN /\ BagCardinality(warnings) = 1
                         /\ \A i \in BagToSet(warnings) :
                               i.user = u /\ i.priority = "high"
                    ELSE warnings = EmptyBag
                 /\ \A v \in Users : \A d \in 0..today :
                       WarningsOfDay(insights', v, d) <= 1
                 /\ SameDayEvents(logs', u, today) >= 50
                       => WarningsOfDay(insights', u, today) = 1
      ]_vars

\* a user with more than 50 events today who got one warning insight today
\* and had got one the day before
C10_Witness ==
    \E u \in Users :
        /\ date(now) = 1
        /\ SameDayEvents(logs, u, 1) > 50
        /\ WarningsOfDay(insights, u, 1) = 1
        /\ WarningsOfDay(insights, u, 0) = 1

----------------------------------------------------------------------------
(* C11 *)

\* the dismissed insights stored
DismissedInsights == {d \in BagToSet(insights) : d.is_dismissed}

\* a step in which user c dismisses the insight `target`, which is c's own
Dismisses(c, target) ==
    /\ get_insight_or_404(insights, target, c) # NoInsight
    /\ dismiss_insight_view(c, target)

\* the dismissed insight is stored with is_dismissed = true, and no listing
\* or unread list holds a dismissed insight
DismissedAndHidden ==
    /\ \A c \in Users, target \in BagToSet(insights) :
          Dismisses(c, target) =>
              BagIn([target EXCEPT !.is_dismissed = TRUE], insights')
    /\ \A u \in Users, d \in BagToSet(insights') :
          d.is_dismissed =>
              /\ ~BagIn(d, insights_listing(insights', u))
              /\ ~BagIn(d, unread_insights(insights', u))

\* C11 as stated: dismissing an insight sets is_dismissed = true and from then
\* on the insight appears neither in the insights listing nor in the
\* dashboard's unread list: no operation resets is_dismissed.
C11_DismissedForever ==
    [][/\ DismissedAndHidden
       /\ \A d \in DismissedInsights :
             CopiesIn(d, insights') >= CopiesIn(d, insights)]_vars

\* C11 amended: dismissing an insight sets is_dismissed = true and the insight
\* appears neither in the insights listing nor in the dashboard's unread list
\* for as long as the flag is set; no dashboard route resets is_dismissed, only
\* an administrator's edit of the insight in the admin site does.
C11_DismissedUntilAdminEdit ==
    [][/\ DismissedAndHidden
       /\ \/ \E r \in BagToSet(insights), read \in BOOLEAN, dismissed \in BOOLEAN :
                AdminEditInsight(r, read, dismissed)
          \/ \A d \in DismissedInsights :
                CopiesIn(d, insights') >= CopiesIn(d, insights)]_vars

\* a user who dismissed the milestone insight has opened the insights page
\* afterwards
C11_Witness ==
    /\ response.view = "insights"
    /\ response.status = 200
    /\ \E d \in DismissedInsights :
          /\ d.user = response.user
          /\ d.insight_type = "achievement"
          /\ ~d.is_read
    /\ insights_listing(insights, response.user) = EmptyBag

----------------------------------------------------------------------------
(* C12 *)

\* the rows of table t that user u owns
OwnedRows(t, u) == [r \in {x \in DOMAIN t : x.user = u} |-> t[r]]

\* everything user u owns: the user record, the profile, the usage logs, the
\* insights and the feedback
Owned(u) ==
    <<u \in users, OwnedRows(profiles, u), OwnedRows(logs, u),
      OwnedRows(insights, u), OwnedRows(feedback, u)>>

\* every row of the exported list comes from a row of table t that u owns,
\* and the list has one row for each of them
OnlyOwnRows(exported, t, u) ==
    /\ BagCardinality(exported) = BagCardinality(OwnedRows(t, u))
    /\ \A x \in BagToSet(exported) :
          \E r \in BagToSet(OwnedRows(t, u)) :
              \A f \in DOMAIN x : x[f] = r[f]

\* C12: for any two users A and B and any database state, the data exported
\* for A contains only A's user record, A's profile and the usage logs,
\* insights and feedback owned by A; a step that changes only records of
\* other users never changes A's export.
C12_ExportOnlyOwn ==
    [][\A a \in Users :
          LET data == export_data(a)
          IN  /\ data.user.username = a
              /\ OnlyOwnRows(data.profile, profiles, a)
              /\ OnlyOwnRows(data.usage_logs, logs, a)
              /\ OnlyOwnRows(data.insights, insights, a)
              /\ OnlyOwnRows(data.feedback, feedback, a)
              /\ Owned(a)' = Owned(a) => export_data(a)' = data]_vars

\* user u1 has exported their data while u1 and u2 both have usage logs and
\* u2 has changed their profile and submitted feedback
C12_Witness ==
    /\ response = Response("u1", "export_data", 200, "")
    /\ LogsOf(logs, "u1") # EmptyBag
    /\ LogsOf(logs, "u2") # EmptyBag
    /\ OwnedRows(feedback, "u2") # EmptyBag
    /\ \E r \in BagToSet(profiles) : r.user = "u2" /\ r.data_collection_consent
    /\ export_data("u1") # export_data("u2")

----------------------------------------------------------------------------
(* C13 *)

\* no policy is active at time t
NoneActive(ps, t) == \A i \in DOMAIN ps : ~is_active(ps[i], date(t))

\* C13: when no policy is active at the time a usage event is logged, the
\* event is stored with no policy reference, marked compliant and with empty
\* compliance notes, however many events the user already has.
C13_NoActivePolicy ==
    [][(count(logs') = count(logs) + 1 /\ NoneActive(policies, now)) =>
          \E r \in BagToSet(logs') :
              /\ logs' = logs (+) SetToBag({r})
              /\ r.policy = NoPolicy
              /\ r.is_compliant
              /\ r.compliance_notes = << >>]_vars

\* the daily limit is 1 and the policy is a draft again: the user's second
\* event of the day is stored without policy, compliant, with no notes
C13_Witness ==
    /\ NoneActive(policies, now)
    /\ policies[1].max_daily_usage = 1
    /\ \E r1, r2 \in BagToSet(logs) :
          /\ r1.user = r2.user
          /\ date(r1.timestamp) = date(r2.timestamp)
          /\ r1.policy = 1
          /\ r2.policy = NoPolicy
          /\ r2.is_compliant
          /\ r2.compliance_notes = << >>

----------------------------------------------------------------------------
(* C14 *)

DailyNote(p)  == <<"Exceeded daily usage limit of", p.max_daily_usage>>
WeeklyNote(p) == <<"Exceeded weekly usage limit of", p.max_weekly_usage>>

\* C14: the daily check comes before the weekly check.  On every insert of a
\* usage event against the active policy: if the user's prior same-day count
\* is >= max_daily_usage the event is non-compliant with the daily-limit note,
\* even when the weekly limit is reached too; if the daily count is below
\* max_daily_usage and the user's count over the trailing 7 days is
\* >= max_weekly_usage the event is non-compliant with the weekly-limit note;
\* otherwise it is compliant.  Events before midnight count toward the weekly
\* count only, events older than 7 days toward neither.
C14_DailyBeforeWeekly ==
    [][\A r \in BagToSet(logs') :
          (logs' = logs (+) SetToBag({r}) /\ r.policy # NoPolicy) =>
              LET p      == policies[r.policy]
                  daily  == SameDayEvents(logs, r.user, date(now))
                  weekly == TrailingWeekEvents(logs, r.user, now)
              IN  IF daily >= p.max_daily_usage
                  THEN ~r.is_compliant /\ r.compliance_notes = DailyNote(p)
                  ELSE IF weekly >= p.max_weekly_usage
                  THEN ~r.is_compliant /\ r.compliance_notes = WeeklyNote(p)
                  ELSE r.is_compliant]_vars

\* daily limit 1, weekly limit 1, and one user has three events: the first is
\* compliant; the second, on a later day of the same week, carries the
\* weekly-limit note (no event of its own day before it); the third, on the
\* day of the second, carries the daily-limit note although the weekly limit
\* is reached as well
C14_Witness ==
    /\ policies[1].max_daily_usage = 1
    /\ policies[1].max_weekly_usage = 1
    /\ \E r1, r2, r3 \in BagToSet(logs) :
          /\ r1.user = r2.user /\ r2.user = r3.user
          /\ r1.is_compliant
          /\ date(r1.timestamp) < date(r2.timestamp)
          /\ r2.timestamp - r1.timestamp <= DaysPerWeek * TicksPerDay
          /\ r2.compliance_notes = WeeklyNote(policies[1])
          /\ date(r3.timestamp) = date(r2.timestamp)
          /\ r3.compliance_notes = DailyNote(policies[1])

----------------------------------------------------------------------------
(* C15 *)

\* a step in which a client that is not logged in requests a dashboard route
AnonymousRequest ==
    \/ dashboard_view(AnonymousUser)
    \/ \E method \in METHODS :
          log_usage_view(AnonymousUser, method, ValidForm, MaxSiteLogs)
    \/ usage_history_view(AnonymousUser)
    \/ insights_view(AnonymousUser)
    \/ \E target \in BagToSet(insights) \cup {NoInsight} :
          dismiss_insight_view(AnonymousUser, target)
    \/ \E method \in METHODS :
          feedback_view(AnonymousUser, method, "bug", MaxSiteFeedback)
    \/ \E method \in METHODS, consent \in BOOLEAN :
          profile_view(AnonymousUser, method, consent)
    \/ export_data_view(AnonymousUser)

\* C15: a request by an unauthenticated client to any dashboard route
\* (dashboard, log-usage, usage-history, insights, insight-dismiss, feedback,
\* profile, export-data) is answered with a redirect to login and changes no
\* stored record.
C15_LoginRequired ==
    [][AnonymousRequest =>
          /\ response'.user = AnonymousUser
          /\ response'.status = 302
          /\ response'.location = "login"
          /\ UNCHANGED <<policies, logs, insights, cs, users, profiles,
                         feedback>>]_vars

\* a client that is not logged in has asked to dismiss an insight, with usage
\* logs, an insight and feedback stored: the answer is the redirect to login
C15_Witness ==
    /\ response = Response(AnonymousUser, "dismiss_insight", 302, "login")
    /\ logs # EmptyBag
    /\ feedback # EmptyBag
    /\ \E i \in BagToSet(insights) : ~i.is_dismissed

----------------------------------------------------------------------------
(* C16 *)

\* C16: a dismiss request by user A for an insight that does not exist or that
\* belongs to another user B yields a not-found outcome and leaves every
\* insight unchanged (in particular B's insight's is_dismissed and is_read).
C16_DismissNotFound ==
    [][\A a \in Users, target \in BagToSet(insights) \cup {NoInsight} :
          (/\ dismiss_insight_view(a, target)
           /\ target = NoInsight \/ target.user # a) =>
              /\ response' = Response(a, "dismiss_insight", 404, "")
              /\ insights' = insights]_vars

\* u2 has asked to dismiss an insight and got not-found; the one insight
\* stored belongs to u1 and is neither dismissed nor read
C16_Witness ==
    /\ response = Response("u2", "dismiss_insight", 404, "")
    /\ count(insights) = 1
    /\ \E i \in BagToSet(insights) :
          i.user = "u1" /\ ~i.is_dismissed /\ ~i.is_read

----------------------------------------------------------------------------
(* C17 *)

\* C17: after any sequence of user creations and user saves, every user owns
\* exactly one profile: creating a user creates its profile, and saving an
\* existing user again never creates a second one.
C17_OneProfilePerUser ==
    /\ \A u \in users : count(profile_of(profiles, u)) = 1
    /\ \A r \in BagToSet(profiles) : r.user \in users

\* both users exist, and one of them was saved again after it was created
C17_Witness ==
    /\ users = Users
    /\ \E r \in BagToSet(profiles) : r.updated_at > r.created_at
    /\ response.view = "login"

----------------------------------------------------------------------------
(* C18 *)

\* the position of a status in the workflow new -> reviewing -> planned ->
\* resolved / closed
WorkflowRank(status) ==
    CASE status = "new"       -> 0
      [] status = "reviewing" -> 1
      [] status = "planned"   -> 2
      [] status = "resolved"  -> 3
      [] status = "closed"    -> 3

\* C18: a feedback record starts in status new and its status only ever moves
\* forward along the workflow new -> reviewing -> planned -> resolved or
\* closed: every step that changes user_feedback either stores a new record
\* with status new or moves one record to a status later in the workflow
\* (never backward, never from resolved or closed to another status, never
\* to a status outside these five).
C18_StatusOnlyForward ==
    [][feedback' # feedback =>
          \/ \E r \in BagToSet(feedback') :
                /\ feedback' = feedback (+) SetToBag({r})
                /\ r.status = "new"
          \/ \E r \in BagToSet(feedback), status \in FEEDBACK_STATUS_CHOICES :
                /\ feedback' = (feedback (-) SetToBag({r}))
                                  (+) SetToBag({[r EXCEPT !.status = status]})
                /\ WorkflowRank(r.status) < WorkflowRank(status)]_vars

----------------------------------------------------------------------------
(* C19 *)

\* the policies whose is_active() is true at time t
ActivePolicies(ps, t) == {i \in DOMAIN ps : is_active(ps[i], date(t))}

\* C19: the active-policy query of log-usage and of the dashboard selects a
\* policy if and only if the policy's is_active() is true; log-usage attaches
\* at most one policy to the new event, one that satisfies is_active() at
\* request time, and of several active policies the first in the policy
\* ordering, which is the most recently created one.
C19_QueryIsActive ==
    [][/\ ActivePolicyMatches(policies, date(now)) = ActivePolicies(policies, now)
       /\ \A r \in BagToSet(logs') :
             logs' = logs (+) SetToBag({r}) =>
                 IF ActivePolicies(policies, now) = {}
                 THEN r.policy = NoPolicy
                 ELSE /\ r.policy \in ActivePolicies(policies, now)
                      /\ \A j \in ActivePolicies(policies, now) : j <= r.policy
      ]_vars

\* two policies are active, the older one until today and the newer one from
\* today on, and the usage event logged now carries the newer one
C19_Witness ==
    /\ ActivePolicies(policies, now) = {1, 2}
    /\ policies[1].effective_until = date(now)
    /\ policies[2].effective_from = date(now)
    /\ \E r \in BagToSet(logs) : r.timestamp = now /\ r.policy = 2

----------------------------------------------------------------------------
(* C20 *)

\* C20: under any interleaving of simultaneous log-usage requests of one user
\* against one fixed active policy, events are not double-counted: at most
\* max_daily_usage of the user's events of one day are stored as compliant.
C20_NoDoubleCounting ==
    \A u \in Users, d \in 0..date(MaxNow) :
        SameDayVerdicts(logs, u, d, TRUE) <= policies[1].max_daily_usage

----------------------------------------------------------------------------
(* C21 *)

\* no log-usage request is being served
NoRequest == \A p \in DOMAIN requests : requests[p] = Idle

\* C21: the deduplication of insights is a read-then-write check that is not
\* atomic.  With the requests of one user served concurrently, what still
\* holds is only this: a warning insight exists for a day only if the user has
\* 50 or more events, an achievement insight for a milestone only if the user
\* has that many events, and a user has no more warning insights of one day,
\* and no more achievement insights of one milestone, than requests are served
\* at the same time.  More than one of each is reachable, and so is a
\* milestone passed without its achievement insight (the witness).
C21_DuplicatesUpToConcurrency ==
    \A u \in Users :
        /\ \A d \in 0..date(now) :
              /\ WarningsOfDay(insights, u, d) <= MaxRequests
              /\ WarningsOfDay(insights, u, d) > 0
                    => count(LogsOf(logs, u)) >= HighUsageToday
        /\ \A m \in milestones :
              /\ MilestoneInsights(u, m) <= MaxRequests
              /\ MilestoneInsights(u, m) > 0 => count(LogsOf(logs, u)) >= m

\* every request has been answered, and a user with 50 or more events, all of
\* one day, has two warning insights generated on that day, two achievement
\* insights for milestone 50 (two inserts observed the same count) and none
\* for milestone 10 (two inserts observed the count past it)
C21_Witness ==
    /\ NoRequest
    /\ \E u \in Users :
          /\ SameDayEvents(logs, u, date(now)) >= HighUsageToday
          /\ SameDayEvents(logs, u, date(now)) = count(LogsOf(logs, u))
          /\ WarningsOfDay(insights, u, date(now)) = 2
          /\ MilestoneInsights(u, 50) = 2
          /\ MilestoneInsights(u, 10) = 0

----------------------------------------------------------------------------
(* C22 *)

\* the events of user u stored in lg with timestamp on the day of time t that
\* are marked non-compliant
NonCompliantToday(lg, u, t) ==
    {x \in BagToSet(lg) :
        x.user = u /\ date(x.timestamp) = date(t) /\ ~x.is_compliant}

\* C22 as stated: with one fixed active policy and no deletion of events,
\* non-compliance is monotone within a day: once one of a user's events of a
\* day is marked non-compliant, every later event of that user on the same day
\* is marked non-compliant as well.
C22_NonComplianceMonotone ==
    [][\A r \in BagToSet(logs') :
          (/\ logs' = logs (+) SetToBag({r})
           /\ NonCompliantToday(logs, r.user, now) # {})
          => ~r.is_compliant
      ]_vars

\* C22 amended: with one fixed active policy and no deletion of events,
\* non-compliance by the daily limit is monotone within a day: once one of a
\* user's events of a day carries the daily-limit note, every later event of
\* that user on the same day is marked non-compliant with the daily-limit note
\* as well.  (An event that is non-compliant by the weekly limit may be
\* followed by a compliant one on the same day, when events leave the
\* trailing 7 days in between.)
C22_DailyNonComplianceMonotone ==
    [][\A r \in BagToSet(logs') :
          (/\ logs' = logs (+) SetToBag({r})
           /\ \E x \in NonCompliantToday(logs, r.user, now) :
                 x.compliance_notes = DailyNote(policies[1]))
          => /\ ~r.is_compliant
             /\ r.compliance_notes = DailyNote(policies[1])
      ]_vars

\* daily limit 1: after the first event of a day, a second one carries the
\* daily-limit note and so does a third one, later on that day
C22_Witness ==
    /\ policies[1].max_daily_usage = 1
    /\ \E r1, r2, r3 \in BagToSet(logs) :
          /\ r1.user = r2.user /\ r2.user = r3.user
          /\ date(r1.timestamp) = date(r3.timestamp)
          /\ r1.is_compliant
          /\ r1.timestamp <= r2.timestamp /\ r2.timestamp < r3.timestamp
          /\ r2.compliance_notes = DailyNote(policies[1])
          /\ r3.compliance_notes = DailyNote(policies[1])

----------------------------------------------------------------------------
(* C23 *)

\* C23: a successful log-usage request of user a (the step in which a's usage
\* events become one more) adds exactly one usage event, owned by a, and
\* leaves every usage event stored before as it was, of a and of the other
\* users; it changes no policy and no insight stored before, and the only
\* other records it creates are insights owned by a; users, profiles and
\* feedback stay as they were.
C23_LogUsageFrame ==
    [][\A a \in Users :
          count(LogsOf(logs', a)) = count(LogsOf(logs, a)) + 1
          => /\ \E r \in BagToSet(logs') :
                   r.user = a /\ logs' = logs (+) SetToBag({r})
             /\ policies' = policies
             /\ insights \sqsubseteq insights'
             /\ \A i \in BagToSet(insights' (-) insights) : i.user = a
             /\ \A v \in Users \ {a} :
                   OwnedRows(insights', v) = OwnedRows(insights, v)
             /\ users' = users /\ profiles' = profiles /\ feedback' = feedback
      ]_vars

\* user u1 logged 50 events on the first day and got the achievement insights
\* of milestones 10 and 50 and the warning insight of that day; user u2, who
\* has no insight, logged an event after that, on the next day, against the
\* policy
C23_Witness ==
    /\ policies # << >>
    /\ MilestoneInsights("u1", 10) = 1
    /\ MilestoneInsights("u1", 50) = 1
    /\ WarningsOfDay(insights, "u1", 0) = 1
    /\ OwnedRows(insights, "u2") = EmptyBag
    /\ \E r \in BagToSet(logs) :
          r.user = "u2" /\ date(r.timestamp) = 1 /\ r.policy = 1
    /\ SameDayEvents(logs, "u1", 0) = 50

----------------------------------------------------------------------------
(* C24 *)

\* the rows of the table ins that the insights page of user u does not list:
\* the dismissed ones and those of other users
NotListed(ins, u) ==
    [r \in {x \in DOMAIN ins : x.user # u \/ x.is_dismissed} |-> ins[r]]

\* the rows of the table ins, whatever their is_read flag
RegardlessOfRead(ins) == BagOfAll(LAMBDA r : [r EXCEPT !.is_read = TRUE], ins)

\* C24: viewing the insights list marks as read exactly the requesting user's
\* insights that are not dismissed: afterwards none of that user's
\* non-dismissed insights is unread, dismissed insights and the insights of
\* other users are as they were (is_read and is_dismissed included), and
\* apart from is_read no insight has changed, appeared or disappeared.
C24_ViewMarksRead ==
    [][\A a \in Users :
          insights_view(a)
          => /\ \A r \in BagToSet(insights') :
                   (r.user = a /\ ~r.is_dismissed) => r.is_read
             /\ NotListed(insights', a) = NotListed(insights, a)
             /\ RegardlessOfRead(insights') = RegardlessOfRead(insights)
      ]_vars

\* user u1 has opened the insights page: an insight of u1 is read, a dismissed
\* insight of u1 is still unread, and so is an insight of u2 that is not
\* dismissed
C24_Witness ==
    /\ response = Response("u1", "insights", 200, "")
    /\ \E r1, r2, r3 \in BagToSet(insights) :
          /\ r1.user = "u1" /\ ~r1.is_dismissed /\ r1.is_read
          /\ r2.user = "u1" /\ r2.is_dismissed /\ ~r2.is_read
          /\ r3.user = "u2" /\ ~r3.is_dismissed /\ ~r3.is_read
    /\ \A r \in BagToSet(insights) : r.is_read => r.user = "u1" /\ ~r.is_dismissed

----------------------------------------------------------------------------
(* C25 *)

\* the fields of a submitted usage form that AIUsageLogForm rejects: a tool or
\* a usage type that is not among the choices, a negative number
RejectedFields(data) ==
    {f \in DOMAIN data :
        \/ f = "ai_tool" /\ data[f] \notin AI_TOOL_CHOICES
        \/ f = "usage_type" /\ data[f] \notin USAGE_TYPE_CHOICES
        \/ f \in {"duration_minutes", "tokens_used"} /\ data[f] < 0}

\* C25: a log-usage submission whose form fails validation is answered with
\* the form and its error messages (the page itself, status 200, with an error
\* for every rejected field), and stores nothing: no usage event is created,
\* no insight is generated, and every user's daily, weekly and all-time counts
\* are as before.
C25_InvalidFormStoresNothing ==
    [][\A a \in Users, data \in FormData :
          (RejectedFields(data) # {} /\ log_usage_view(a, "POST", data, MaxFormLogs))
          => /\ "errors" \in DOMAIN response'
             /\ response'.user = a
             /\ response'.view = "log_usage"
             /\ response'.status = 200
             /\ response'.errors = RejectedFields(data)
             /\ logs' = logs
             /\ insights' = insights
             /\ \A u \in Users :
                   /\ SameDayEvents(logs', u, date(now')) = SameDayEvents(logs, u, date(now))
                   /\ TrailingWeekEvents(logs', u, now') = TrailingWeekEvents(logs, u, now)
                   /\ count(LogsOf(logs', u)) = count(LogsOf(logs, u))
      ]_vars

\* user u1, who has one usage event of the day before, has submitted a form
\* with a negative duration and got the form back with the error; u1 still
\* has no event today
C25_Witness ==
    /\ response = FormResponse("u1", "log_usage", {"duration_minutes"})
    /\ date(now) = 1
    /\ SameDayEvents(logs, "u1", 0) = 1
    /\ SameDayEvents(logs, "u1", 1) = 0

=============================================================================
